---- MODULE Spec2Model ----
(***************************************************************************)
(* bridgemq-js: the store (Redis keys), the atomic Lua scripts that mutate *)
(* it, the worker claim/execute/complete loop and the maintenance calls.   *)
(* Each script is a function from the store to the store and a result; an  *)
(* invocation is one atomic step.  A script that raises a Lua error keeps  *)
(* the writes it made before the error (Redis does not roll back).         *)
(***************************************************************************)
EXTENDS Integers, FiniteSets, Sequences, TLC

Jobs == {"A", "B", "C"}
Workers == {"w1", "w2"}
Meshes == {"default", "m1"}
PriorityChoices == {5}
FinalStatuses == {"completed", "failed", "cancelled"}

IdempotencyKeys == {"K"}
Fingerprints == {"F1", "F2"}
Capabilities == {"gpu:cuda", "video:ffmpeg"}
Modes == {"all", "any"}
RateLimitKeys == {"R"}

Nil == "nil"
NoWorker == ""
Null == "null"

\* Bounds of the model.  Every job is created with retry.maxAttempts =
\* MaxAttemptsChoice: one failure is retried, the next exhausts the budget.
MaxTime == 1
StallTimeout == 0
MaxDelay == 1
MaxAttemptsChoice == 2
MaxStallChoice == 2
MaxDlq == 1
Concurrency == 2

\* Both workers serve the default mesh (config.mesh.meshId).
WorkerMesh(w) == "default"

\* The jobs the callers of cancelJob, handleFailure and of complete-job with
\* an explicit final status name.
ApiJobs == {"A"}

\* config.server.capabilities of each worker.
WorkerCaps(w) == IF w = "w1" THEN {"gpu:cuda"} ELSE {"gpu:cuda", "video:ffmpeg"}

\* The jobs the producers of most scenarios create.
PairJobs == {"A", "B"}

JobOrder(j) == IF j = "A" THEN 1 ELSE IF j = "B" THEN 2 ELSE 3

VARIABLES
  store,      \* the Redis keys
  now,        \* the clock every caller reads (Date.now())
  jobMesh,    \* the meshId each job was created with (Nil: not created)
  worker,     \* per worker: alive, meshId, activeJobs, running handler tasks,
              \* claim calls sent (requests) and answered (claiming), stop() phase
  cancelling, \* cancelJob calls between their read of meta and their write
  pool,       \* the ConnectionPool object, its callers and its health check
  breaker     \* the CircuitBreaker object and the calls it is executing

vars == <<store, now, jobMesh, worker, cancelling, pool, breaker>>

----------------------------------------------------------------------------
\* Sorted sets, hashes and lists of the store.

ZAddQueue(q, m, p, j, s) ==
  {e \in q : ~(e.mesh = m /\ e.prio = p /\ e.job = j)}
    \cup {[mesh |-> m, prio |-> p, job |-> j, score |-> s]}

ZRemQueue(q, m, p, j) == {e \in q : ~(e.mesh = m /\ e.prio = p /\ e.job = j)}

ZAddPending(ps, m, j, s) ==
  {e \in ps : ~(e.mesh = m /\ e.job = j)} \cup {[mesh |-> m, job |-> j, score |-> s]}

ZRemPending(ps, m, j) == {e \in ps : ~(e.mesh = m /\ e.job = j)}

ZAddDelayed(d, j, s) == {e \in d : e.job # j} \cup {[job |-> j, score |-> s]}

ZRemDelayed(d, j) == {e \in d : e.job # j}

HSetActive(a, w, j, t) ==
  {e \in a : ~(e.server = w /\ e.job = j)} \cup {[server |-> w, job |-> j, at |-> t]}

HDelActive(a, w, j) == {e \in a : ~(e.server = w /\ e.job = j)}

NoMeta ==
  [exists |-> FALSE, status |-> Nil, attempt |-> 0, stalledCount |-> 0,
   processedBy |-> NoWorker, priority |-> 0, meshId |-> Nil]

NoConfig ==
  [exists |-> FALSE, maxAttempts |-> 0, waitFor |-> {}, caps |-> <<>>, mode |-> Nil,
   server |-> Nil, rateKey |-> Nil, rateMax |-> 0]

EmptyStore ==
  [meta |-> [j \in Jobs |-> NoMeta],
   config |-> [j \in Jobs |-> NoConfig],
   queue |-> {}, pending |-> {}, delayed |-> {}, active |-> {},
   dlq |-> <<>>,
   depends |-> [j \in Jobs |-> {}],
   waiters |-> [j \in Jobs |-> {}],
   idempotency |-> [k \in IdempotencyKeys |-> Nil],
   fingerprint |-> [h \in Fingerprints |-> Nil],
   servers |-> {},
   ratelimit |-> [k \in RateLimitKeys |-> 0],
   overflow |-> [k \in RateLimitKeys |-> <<>>]]

\* Lua: `x or 'default'`
OrDefault(x) == IF x = Nil THEN "default" ELSE x

----------------------------------------------------------------------------
\* createJob.lua, called by JobStorage.createJob.

\* JobStorage.createJob: status from schedule.delay only.
InitialStatus(delay) == IF delay > 0 THEN "scheduled" ELSE "pending"

\* createJob.lua step 3: the fields HMSET writes to job:{id}:meta.  meshId is
\* not among them.
CreatedMeta(p, st) ==
  [exists |-> TRUE, status |-> st, attempt |-> 0, stalledCount |-> 0,
   processedBy |-> NoWorker, priority |-> p, meshId |-> Nil]

\* createJob.lua steps 3-11 for the meta {status, scheduledFor, meshId,
\* priority} and the config cfg the caller sends.
CreateWrites(s, j, m, p, st, scheduledFor, cfg, t) ==
  LET isDelayed == scheduledFor > t
      wf == cfg.waitFor
      s1 == [s EXCEPT !.meta[j] = CreatedMeta(p, st),
                      !.config[j] = cfg]
      s2 == IF isDelayed
              THEN [s1 EXCEPT !.delayed = ZAddDelayed(@, j, scheduledFor)]
              ELSE [s1 EXCEPT !.queue = ZAddQueue(@, m, p, j, scheduledFor),
                              !.pending = ZAddPending(@, m, j, p)]
      s3 == [s2 EXCEPT !.depends[j] = @ \cup wf,
                       !.waiters = [k \in Jobs |-> IF k \in wf THEN @[k] \cup {j} ELSE @[k]]]
  IN  s3

\* A config without target.
PlainConfig(ma, wf) ==
  [exists |-> TRUE, maxAttempts |-> ma, waitFor |-> wf, caps |-> <<>>, mode |-> Nil,
   server |-> Nil, rateKey |-> Nil, rateMax |-> 0]

\* A create with schedule.delay, without idempotency key, fingerprint or
\* target.
CreateScript(s, j, m, p, delay, ma, wf, t) ==
  CreateWrites(s, j, m, p, InitialStatus(delay), t + delay, PlainConfig(ma, wf), t)

InQueue(s, j) == \E e \in s.queue : e.job = j

CreateJob(j, m, p, delay, ma, wf) ==
  /\ jobMesh[j] = Nil
  /\ \A k \in Jobs : JobOrder(k) < JobOrder(j) => jobMesh[k] # Nil
  /\ wf \subseteq {k \in Jobs \ {j} : jobMesh[k] # Nil}
  /\ store' = CreateScript(store, j, m, p, delay, ma, wf, now)
  /\ jobMesh' = [jobMesh EXCEPT ![j] = m]
  /\ UNCHANGED <<now, worker, cancelling, pool, breaker>>

----------------------------------------------------------------------------
\* claimJob.lua, called by Worker._claimAndProcess through JobStorage.claimJob.

\* ZRANGEBYSCORE queueKey 0 now LIMIT 0 1: the entry of lowest (score, id).
QueueHead(s, m, p, t) ==
  {e \in s.queue :
     /\ e.mesh = m /\ e.prio = p /\ e.score <= t
     /\ \A f \in s.queue :
          (f.mesh = m /\ f.prio = p /\ f.score <= t) =>
            (e.score < f.score \/ (e.score = f.score /\ JobOrder(e.job) <= JobOrder(f.job)))}

ClaimableStatus(st) == st \in {"pending", "scheduled"}

\* config.target.capabilities[1], when the config and the list exist.
RequiredCapability(cfg) ==
  IF cfg.exists /\ cfg.caps # <<>> THEN cfg.caps[1] ELSE Nil

\* hasCapability(required, available)
HasCapability(required, available) == required = Nil \/ required \in available

\* A limit test that lets the job through at count = max.
IsRateLimitedAboveMax(s, j) ==
  LET cfg == s.config[j]
  IN  /\ cfg.exists
      /\ cfg.rateKey # Nil
      /\ s.ratelimit[cfg.rateKey] > cfg.rateMax

\* isRateLimited(jobId): GET ratelimit:{config.rateLimit.key} >= max.
IsRateLimited(s, j) ==
  LET cfg == s.config[j]
  IN  /\ cfg.exists
      /\ cfg.rateKey # Nil
      /\ s.ratelimit[cfg.rateKey] >= cfg.rateMax

\* The checks of lines 83-107 on the head of one queue, for worker w.
Eligible(s, j, w) ==
  /\ s.meta[j].exists
  /\ ClaimableStatus(s.meta[j].status)
  /\ HasCapability(RequiredCapability(s.config[j]), WorkerCaps(w))
  /\ ~IsRateLimited(s, j)

\* The heads that pass, over all priorities of the worker's mesh.
EligibleHeads(s, w, m, t) ==
  {e \in s.queue : e.mesh = m /\ e \in QueueHead(s, m, e.prio, t) /\ Eligible(s, e.job, w)}

\* Priorities are scanned from 10 down to 1: the first eligible head wins.
ClaimChoice(s, w, m, t) ==
  LET hs == EligibleHeads(s, w, m, t)
  IN  IF hs = {} THEN Null
      ELSE (CHOOSE e \in hs : \A f \in hs : f.prio <= e.prio).job

ClaimedMeta(mt, w) == [mt EXCEPT !.status = "active", !.processedBy = w]

\* A claim that records the job under the server but neither dequeues it nor
\* marks it active.
ClaimWritesKeepsEntry(s, w, m, j, t) ==
  [s EXCEPT !.active = HSetActive(@, w, j, t)]

\* Lines 108-124: ZREM queue, ZREM pending index (KEYS[1], the worker's
\* mesh), HSET active, HMSET meta.
ClaimWrites(s, w, m, j, t) ==
  LET p == (CHOOSE e \in EligibleHeads(s, w, m, t) : e.job = j).prio
  IN  [s EXCEPT !.queue = ZRemQueue(@, m, p, j),
                !.pending = ZRemPending(@, m, j),
                !.active = HSetActive(@, w, j, t),
                !.meta[j] = ClaimedMeta(@, w)]

ClaimScript(s, w, m, t) ==
  LET j == ClaimChoice(s, w, m, t)
  IN  IF j = Null THEN s ELSE ClaimWrites(s, w, m, j, t)

NoTasks == [j \in Jobs |-> 0]

\* One tick of Worker._startClaimLoop that reaches _claimAndProcess.
WorkerClaim(w) ==
  /\ worker[w].alive
  /\ Cardinality(worker[w].activeJobs) < Concurrency
  /\ LET j == ClaimChoice(store, w, worker[w].mesh, now)
     IN  /\ store' = ClaimScript(store, w, worker[w].mesh, now)
         /\ IF j = Null
              THEN UNCHANGED <<worker>>
              ELSE /\ worker' = [worker EXCEPT ![w].activeJobs = @ \cup {j},
                                               ![w].running[j] = @ + 1]
  /\ UNCHANGED <<now, jobMesh, cancelling, pool, breaker>>

----------------------------------------------------------------------------
\* completeJob.lua.

\* Step 9, the loop over SMEMBERS waiters, in the order the store returns
\* them.  The queue key is built from the waiter's meta.meshId: a nil there
\* is a Lua error, which ends the script after the HSET of the status.
RECURSIVE TriggerWaiters(_, _, _, _)
TriggerWaiters(s, j, order, t) ==
  IF order = <<>> THEN [store |-> s, raised |-> FALSE]
  ELSE
    LET k == Head(order)
        s1 == [s EXCEPT !.depends[k] = @ \ {j}]
    IN  IF s1.depends[k] = {} /\ s1.meta[k].exists
          THEN LET s2 == [s1 EXCEPT !.meta[k].status = "pending"]
                   m == s2.meta[k].meshId
                   p == s2.meta[k].priority
               IN  IF m = Nil
                     THEN [store |-> s2, raised |-> TRUE]
                     ELSE TriggerWaiters(
                            [s2 EXCEPT !.queue = ZAddQueue(@, m, p, k, t),
                                       !.pending = ZAddPending(@, m, k, p)],
                            j, Tail(order), t)
          ELSE TriggerWaiters(s1, j, Tail(order), t)

\* Steps 1-3: the checks that return {success = false}.
\* The checks without step 3.
CompleteAcceptedAnyStatus(s, j, w) ==
  /\ s.meta[j].exists
  /\ s.meta[j].processedBy = w

CompleteAccepted(s, j, w) ==
  /\ s.meta[j].exists
  /\ s.meta[j].processedBy = w
  /\ s.meta[j].status = "active"

\* Steps 4-6: HMSET status, SET result, HDEL active:{serverId}.
CompleteWrites(s, j, w, fs) ==
  [s EXCEPT !.meta[j].status = fs,
            !.active = HDelActive(@, w, j)]

CompleteScript(s, j, w, fs, order, t) ==
  IF ~CompleteAccepted(s, j, w)
    THEN [store |-> s, outcome |-> "rejected"]
    ELSE LET r == TriggerWaiters(CompleteWrites(s, j, w, fs), j, order, t)
         IN  [store |-> r.store, outcome |-> IF r.raised THEN "raised" ELSE "ok"]

\* The sequences that enumerate a set once each.
Orders(S) ==
  {q \in [1..Cardinality(S) -> S] : \A a, b \in 1..Cardinality(S) : a # b => q[a] # q[b]}

----------------------------------------------------------------------------
\* retryJob.lua.

\* Steps 1-3: job found, owned by the caller, config found.
RetryAccepted(s, j, w) ==
  /\ s.meta[j].exists
  /\ s.meta[j].processedBy = w
  /\ s.config[j].exists

\* A budget test that allows one attempt more.
RetryExhaustedLate(newAttempt, maxAttempts) == newAttempt > maxAttempts

\* Step 7.
RetryExhausted(newAttempt, maxAttempts) == newAttempt >= maxAttempts

\* Step 7, DLQ branch: the key is built from meta.meshId before any write.
RetryToDlq(s, j, newAttempt) ==
  LET m == s.meta[j].meshId
  IN  IF m = Nil
        THEN [store |-> s, outcome |-> "raised"]
        ELSE [store |-> [s EXCEPT !.dlq = Append(@, [key |-> m, job |-> j]),
                                  !.meta[j].status = "failed",
                                  !.meta[j].attempt = newAttempt],
              outcome |-> "dlq"]

\* Steps 9-10.
RetrySchedule(s, j, newAttempt, nextRun) ==
  [s EXCEPT !.meta[j].status = "scheduled",
            !.meta[j].attempt = newAttempt,
            !.meta[j].processedBy = NoWorker,
            !.delayed = ZAddDelayed(@, j, nextRun)]

\* Defaults of step 3: maxAttempts, baseDelayMs, maxDelayMs.
DefaultMaxAttempts == 3
DefaultBaseDelayMs == 1000
DefaultMaxDelayMs == 60000

Min(a, b) == IF a <= b THEN a ELSE b

RECURSIVE Pow2(_)
Pow2(n) == IF n <= 0 THEN 1 ELSE 2 * Pow2(n - 1)

\* A delay that grows without the cap of maxDelay.
BackoffDelayUncapped(backoffType, baseDelay, maxDelay, newAttempt) ==
  IF backoffType = "linear" THEN baseDelay * newAttempt
  ELSE IF backoffType = "fixed" THEN baseDelay
  ELSE baseDelay * Pow2(newAttempt - 1)

\* Step 8: the delay of the backoff type, before jitter.
BackoffDelay(backoffType, baseDelay, maxDelay, newAttempt) ==
  IF backoffType = "linear" THEN Min(baseDelay * newAttempt, maxDelay)
  ELSE IF backoffType = "fixed" THEN baseDelay
  ELSE Min(baseDelay * Pow2(newAttempt - 1), maxDelay)

\* math.random() in thousandths: 0 <= r < 1000.
RandomDraws == {0, 500, 999}

\* delay + delay * 0.2 * (random - 0.5) * 2, floored.
Jittered(delay, r) == (delay * (4000 + 2 * r)) \div 5000

\* The delay retry-job computes for a config that leaves backoff, baseDelayMs
\* and maxDelayMs to their defaults.
DefaultRetryDelay(newAttempt, r) ==
  Jittered(BackoffDelay("exponential", DefaultBaseDelayMs, DefaultMaxDelayMs, newAttempt), r)

RetryScript(s, j, w, delay, t) ==
  IF ~RetryAccepted(s, j, w)
    THEN [store |-> s, outcome |-> "rejected"]
    ELSE LET newAttempt == s.meta[j].attempt + 1
             s1 == [s EXCEPT !.active = HDelActive(@, w, j)]
         IN  IF RetryExhausted(newAttempt, s.config[j].maxAttempts)
               THEN RetryToDlq(s1, j, newAttempt)
               ELSE [store |-> RetrySchedule(s1, j, newAttempt, t + delay),
                     outcome |-> "retry"]

----------------------------------------------------------------------------
\* processDelayed.lua.

Before(e, f) ==
  e.score < f.score \/ (e.score = f.score /\ JobOrder(e.job) < JobOrder(f.job))

\* A range read that takes the first entries whatever their score.
DueBatchEarly(s, limit, t) ==
  {e \in s.delayed :
     Cardinality({f \in s.delayed : Before(f, e)}) < limit}

\* ZRANGEBYSCORE delayed 0 now LIMIT 0 limit.
DueBatch(s, limit, t) ==
  {e \in s.delayed :
     /\ e.score <= t
     /\ Cardinality({f \in s.delayed : f.score <= t /\ Before(f, e)}) < limit}

Promotable(s, j) == s.meta[j].exists /\ s.meta[j].status = "scheduled"

PromoteOne(s, j, t) ==
  LET m == OrDefault(s.meta[j].meshId)
      p == s.meta[j].priority
  IN  [s EXCEPT !.queue = ZAddQueue(@, m, p, j, t),
                !.pending = ZAddPending(@, m, j, p),
                !.meta[j].status = "pending",
                !.delayed = ZRemDelayed(@, j)]

RECURSIVE PromoteAll(_, _, _)
PromoteAll(s, js, t) ==
  IF js = {} THEN s
  ELSE LET j == CHOOSE x \in js : TRUE
       IN  PromoteAll(IF Promotable(s, j) THEN PromoteOne(s, j, t) ELSE s, js \ {j}, t)

ProcessDelayedScript(s, limit, t) ==
  PromoteAll(s, {e.job : e \in DueBatch(s, limit, t)}, t)

----------------------------------------------------------------------------
\* detectStalled.lua.

Stalled(e, stallTimeout, t) == t - e.at > stallTimeout

StallExhausted(stalledCount, maxStallCount) == stalledCount >= maxStallCount

\* The else branch: back to the queue of `meta.meshId or 'default'`.
StallRecover(s, j, sc, t) ==
  LET m == OrDefault(s.meta[j].meshId)
      p == s.meta[j].priority
  IN  [s EXCEPT !.queue = ZAddQueue(@, m, p, j, t),
                !.pending = ZAddPending(@, m, j, p),
                !.meta[j].status = "pending",
                !.meta[j].stalledCount = sc,
                !.meta[j].processedBy = NoWorker]

StallToDlq(s, j, sc) ==
  LET m == s.meta[j].meshId
  IN  [s EXCEPT !.dlq = Append(@, [key |-> m, job |-> j]),
                !.meta[j].status = "failed",
                !.meta[j].stalledCount = sc,
                !.meta[j].processedBy = NoWorker]

\* The loop over the active hashes, in the order KEYS and HGETALL return the
\* entries; a Lua error ends it.
RECURSIVE DetectLoop(_, _, _, _, _)
DetectLoop(s, order, stallTimeout, maxStall, t) ==
  IF order = <<>> THEN [store |-> s, outcome |-> "ok"]
  ELSE
    LET e == Head(order)
        j == e.job
    IN  IF ~Stalled(e, stallTimeout, t) \/ ~s.meta[j].exists
          THEN DetectLoop(s, Tail(order), stallTimeout, maxStall, t)
          ELSE LET sc == s.meta[j].stalledCount + 1
                   s1 == [s EXCEPT !.active = HDelActive(@, e.server, j)]
               IN  IF StallExhausted(sc, maxStall)
                     THEN IF s1.meta[j].meshId = Nil
                            THEN [store |-> s1, outcome |-> "raised"]
                            ELSE DetectLoop(StallToDlq(s1, j, sc), Tail(order),
                                            stallTimeout, maxStall, t)
                     ELSE DetectLoop(StallRecover(s1, j, sc, t), Tail(order),
                                     stallTimeout, maxStall, t)

\* Entries of one hash are read together.
Grouped(order) ==
  \A a, b, c \in DOMAIN order :
    (a < b /\ b < c /\ order[a].server = order[c].server) => order[b].server = order[a].server

DetectStalledScript(s, order, stallTimeout, maxStall, t) ==
  DetectLoop(s, order, stallTimeout, maxStall, t)

----------------------------------------------------------------------------
\* Worker._processJob: the handler returns and the task calls complete-job;
\* a raised script is caught and sent to _failJob.

\* .finally(() => activeJobs.delete(jobId))
TaskEnds(wk, j, phase) ==
  [wk EXCEPT !.activeJobs = @ \ {j},
             ![phase][j] = @ - 1]

HandlerSucceeds(w, j) ==
  /\ worker[w].alive
  /\ worker[w].running[j] > 0
  /\ \E order \in Orders(store.waiters[j]) :
       LET r == CompleteScript(store, j, w, "completed", order, now)
       IN  /\ store' = r.store
           /\ worker' = [worker EXCEPT ![w] =
                IF r.outcome = "raised"
                  THEN [@ EXCEPT !.running[j] = @ - 1, !.failing[j] = @ + 1]
                  ELSE TaskEnds(@, j, "running")]
  /\ UNCHANGED <<now, jobMesh, cancelling, pool, breaker>>

\* The handler throws: _failJob calls retry-job and swallows its errors.
HandlerThrows(w, j, delay) ==
  /\ worker[w].alive
  /\ worker[w].running[j] > 0
  /\ store' = RetryScript(store, j, w, delay, now).store
  /\ worker' = [worker EXCEPT ![w] = TaskEnds(@, j, "running")]
  /\ UNCHANGED <<now, jobMesh, cancelling, pool, breaker>>

\* The catch block of _processJob after complete-job raised.
FailAfterComplete(w, j, delay) ==
  /\ worker[w].alive
  /\ worker[w].failing[j] > 0
  /\ store' = RetryScript(store, j, w, delay, now).store
  /\ worker' = [worker EXCEPT ![w] = TaskEnds(@, j, "failing")]
  /\ UNCHANGED <<now, jobMesh, cancelling, pool, breaker>>

\* scripts.completeJob called with an explicit final status.
ApiComplete(w, j, fs) ==
  /\ worker[w].alive
  /\ jobMesh[j] # Nil
  /\ \E order \in Orders(store.waiters[j]) :
       store' = CompleteScript(store, j, w, fs, order, now).store
  /\ UNCHANGED <<now, jobMesh, worker, cancelling, pool, breaker>>

----------------------------------------------------------------------------
\* The maintenance calls.

\* ProcessDelayed default batch size.
BatchSize == 100

ProcessDelayed ==
  /\ store' = ProcessDelayedScript(store, BatchSize, now)
  /\ UNCHANGED <<now, jobMesh, worker, cancelling, pool, breaker>>

DetectStalled(maxStall) ==
  /\ \E order \in Orders({e \in store.active : Stalled(e, StallTimeout, now)}) :
       /\ Grouped(order)
       /\ store' = DetectStalledScript(store, order, StallTimeout, maxStall, now).store
  /\ UNCHANGED <<now, jobMesh, worker, cancelling, pool, breaker>>

----------------------------------------------------------------------------
\* JobStorage.cancelJob: getJobMeta, then setJobStatus, two store calls.

CancelAllowed(st) == st \in {"pending", "scheduled"}

CancelRead(j) ==
  /\ j \notin cancelling
  /\ store.meta[j].exists
  /\ CancelAllowed(store.meta[j].status)
  /\ cancelling' = cancelling \cup {j}
  /\ UNCHANGED <<store, now, jobMesh, worker, pool, breaker>>

CancelWrite(j) ==
  /\ j \in cancelling
  /\ cancelling' = cancelling \ {j}
  /\ store' = [store EXCEPT !.meta[j].exists = TRUE, !.meta[j].status = "cancelled"]
  /\ UNCHANGED <<now, jobMesh, worker, pool, breaker>>

----------------------------------------------------------------------------
\* RetryManager.handleFailure, called for a job the caller is running.

ShouldRetry(s, j, retryable) ==
  /\ s.meta[j].attempt < s.config[j].maxAttempts
  /\ retryable

\* job.meshId read back from meta: undefined when the field is absent.
DlqKeyOf(m) == IF m = Nil THEN "undefined" ELSE m

\* moveToDLQ: QueueStorage.pushToDLQ, then JobStorage.setJobStatus.
MoveToDLQ(s, j) ==
  [s EXCEPT !.dlq = Append(@, [key |-> DlqKeyOf(s.meta[j].meshId), job |-> j]),
            !.meta[j].status = "failed"]

HandleFailure(w, j, retryable, delay) ==
  /\ worker[w].alive
  /\ worker[w].running[j] > 0
  /\ store.meta[j].exists
  /\ Len(store.dlq) < MaxDlq
  /\ IF ShouldRetry(store, j, retryable)
       THEN store' = RetryScript(store, j, w, delay, now).store
       ELSE store' = MoveToDLQ(store, j)
  /\ UNCHANGED <<now, jobMesh, worker, cancelling, pool, breaker>>

----------------------------------------------------------------------------
\* A worker process ends.

Dead(wk) ==
  [wk EXCEPT !.alive = FALSE, !.activeJobs = {}, !.running = NoTasks, !.failing = NoTasks,
             !.requests = 0, !.claiming = NoTasks]

\* The process dies.
Crash(w) ==
  /\ worker[w].alive
  /\ worker' = [worker EXCEPT ![w] = Dead(@)]
  /\ UNCHANGED <<store, now, jobMesh, cancelling, pool, breaker>>

\* ServerStorage.deregisterServer: DEL active:{serverId}.
DeregisterServer(s, w) ==
  IF w \notin s.servers THEN s
  ELSE [s EXCEPT !.servers = @ \ {w},
                 !.active = {e \in @ : e.server # w}]

\* Client.shutdown: deregister, then close the connection.
Shutdown(w) ==
  /\ worker[w].alive
  /\ store' = DeregisterServer(store, w)
  /\ worker' = [worker EXCEPT ![w] = Dead(@)]
  /\ UNCHANGED <<now, jobMesh, cancelling, pool, breaker>>

----------------------------------------------------------------------------
Tick ==
  /\ now < MaxTime
  /\ now' = now + 1
  /\ UNCHANGED <<store, jobMesh, worker, cancelling, pool, breaker>>

\* Client.init has registered every server: server:{serverId} exists.
RegisteredStore == [EmptyStore EXCEPT !.servers = Workers]

\* ConnectionPool constructor: the options and the empty pool.  `caller` and
\* `health` hold the position of each acquire()/release() caller and of the
\* health-check callback; `constructed` counts the RedisConnection objects
\* made and `promises` the promises _waitForConnection made.

Callers == {"c1", "c2", "c3"}

MinConnections == 1
MaxConnections == 1
AcquireTimeoutMs == 2

IdleCaller == [pc |-> "idle", conn |-> 0, ticket |-> 0, since |-> 0]

NewPool ==
  [availableConnections |-> <<>>,
   inUseConnections |-> {},
   totalConnections |-> 0,
   waitQueue |-> <<>>,
   started |-> FALSE,
   constructed |-> 0,
   promises |-> 0,
   caller |-> [c \in Callers |-> IdleCaller],
   health |-> [pc |-> "idle", stale |-> <<>>, conn |-> 0]]

\* CircuitBreaker constructor; nextAttemptTime null compares as 0.  `calls`
\* counts the execute() calls that are awaiting fn().
FailureThreshold == 2
SuccessThreshold == 2
BreakerTimeout == 1

NewBreaker ==
  [state |-> "CLOSED", failures |-> 0, successes |-> 0, nextAttemptTime |-> 0,
   calls |-> 0]

Init ==
  /\ store = RegisteredStore
  /\ now = 0
  /\ jobMesh = [j \in Jobs |-> Nil]
  /\ worker = [w \in Workers |->
                 [alive |-> TRUE, mesh |-> WorkerMesh(w), activeJobs |-> {},
                  running |-> NoTasks, failing |-> NoTasks,
                  requests |-> 0, claiming |-> NoTasks,
                  phase |-> "running", stopStart |-> 0]]
  /\ cancelling = {}
  /\ pool = NewPool
  /\ breaker = NewBreaker

Next ==
  \/ \E j \in PairJobs, m \in Meshes, p \in PriorityChoices, d \in 0..MaxDelay,
        ma \in {MaxAttemptsChoice}, wf \in SUBSET Jobs :
       CreateJob(j, m, p, d, ma, wf)
  \/ \E w \in Workers : WorkerClaim(w)
  \/ \E w \in Workers, j \in Jobs : HandlerSucceeds(w, j)
  \/ \E w \in Workers, j \in Jobs, d \in 1..MaxDelay : HandlerThrows(w, j, d)
  \/ \E w \in Workers, j \in Jobs, d \in 1..MaxDelay : FailAfterComplete(w, j, d)
  \/ \E w \in Workers, j \in ApiJobs, fs \in FinalStatuses : ApiComplete(w, j, fs)
  \/ ProcessDelayed
  \/ \E ms \in 1..MaxStallChoice : DetectStalled(ms)
  \/ \E j \in ApiJobs : CancelRead(j)
  \/ \E j \in ApiJobs : CancelWrite(j)
  \/ \E w \in Workers, j \in ApiJobs, rt \in BOOLEAN, d \in 1..MaxDelay :
       HandleFailure(w, j, rt, d)
  \/ \E w \in Workers : Crash(w)
  \/ \E w \in Workers : Shutdown(w)
  \/ Tick

Spec == Init /\ [][Next]_vars

----------------------------------------------------------------------------
\* Properties.

MaxClaims == 3

\* The workers that issue up to MaxClaims claim-job invocations at one instant;
\* the store runs the scripts one after the other.
ClaimSeqs == UNION {[1..n -> Workers] : n \in 1..MaxClaims}

RECURSIVE ClaimReturns(_, _, _)
ClaimReturns(s, ws, t) ==
  IF ws = <<>> THEN <<>>
  ELSE LET w == Head(ws)
       IN  <<ClaimChoice(s, w, WorkerMesh(w), t)>>
             \o ClaimReturns(ClaimScript(s, w, WorkerMesh(w), t), Tail(ws), t)

Hits(rs, j) == {i \in DOMAIN rs : rs[i] = j}

\* C1: from any reachable store, in any series of claim-job invocations issued
\* at one instant by any workers, no job is returned twice, and the job J that
\* is claimable is returned by exactly one of them; the others return null or
\* another job.
C1_ExactlyOneClaimReturns ==
  \A ws \in ClaimSeqs :
    LET rs == ClaimReturns(store, ws, now)
    IN  \A j \in Jobs :
          /\ Cardinality(Hits(rs, j)) <= 1
          /\ ClaimChoice(store, ws[1], WorkerMesh(ws[1]), now) = j
               => Cardinality(Hits(rs, j)) = 1

\* Worker w1 has claimed a job at this instant and runs its handler; the
\* other job is claimable, and of two further invocations the first returns
\* it and the second returns null.
C1_Witness ==
  \E j, k \in Jobs :
    /\ j # k
    /\ worker["w1"].running[j] = 1
    /\ [server |-> "w1", job |-> j, at |-> now] \in store.active
    /\ store.meta[j].status = "active"
    /\ ClaimReturns(store, <<"w2", "w1">>, now) = <<k, Null>>

RECURSIVE Handlers(_, _)
Handlers(ws, j) ==
  IF ws = {} THEN 0
  ELSE LET w == CHOOSE x \in ws : TRUE
       IN  worker[w].running[j] + Handlers(ws \ {w}, j)

\* C2: at most one handler runs for a job at any time, also when the handler
\* outlives the stall timeout.
C2_AtMostOneExecution == \A j \in Jobs : Handlers(Workers, j) <= 1

InActiveOf(s, w, j) == \E e \in s.active : e.server = w /\ e.job = j

\* C3 (I2): status = active iff processedBy is non-empty and the job is a
\* field of active:{processedBy}.
C3_ActiveIffOwned ==
  \A j \in Jobs :
    store.meta[j].exists =>
      ((store.meta[j].status = "active")
         <=> (/\ store.meta[j].processedBy # NoWorker
              /\ InActiveOf(store, store.meta[j].processedBy, j)))

InDlq(s, j) == \E i \in DOMAIN s.dlq : s.dlq[i].job = j

\* The queue positions a job occupies: delayed set, priority queues, active
\* hashes, DLQ list.
Positions(s, j) ==
  Cardinality({e \in s.delayed : e.job = j})
    + Cardinality({e \in s.queue : e.job = j})
    + Cardinality({e \in s.active : e.job = j})
    + Cardinality({i \in DOMAIN s.dlq : s.dlq[i].job = j})

\* C4 (I1): every job occupies exactly one queue position, or none when its
\* status is terminal; never two.
C4_OneQueuePosition ==
  \A j \in Jobs :
    store.meta[j].exists =>
      /\ Positions(store, j) <= 1
      /\ Positions(store, j) = 0 => store.meta[j].status \in FinalStatuses

InPendingIndex(s, j) == \E e \in s.pending : e.job = j

InDelayed(s, j) == \E e \in s.delayed : e.job = j

InAnyActive(s, j) == \E e \in s.active : e.job = j

\* C5 (I3): a completed, failed or cancelled job has no entry in the delayed
\* set, a priority queue, the pending index or an active hash.
C5_TerminalInNoQueue ==
  \A j \in Jobs :
    (store.meta[j].exists /\ store.meta[j].status \in FinalStatuses) =>
      /\ ~InDelayed(store, j)
      /\ ~InQueue(store, j)
      /\ ~InPendingIndex(store, j)
      /\ ~InAnyActive(store, j)

\* C6 (P3): a job b that waits for a never becomes pending until a is
\* completed, whatever operation the step is.
C6_PendingOnlyAfterDependency ==
  [][\A b \in Jobs : \A a \in store'.config[b].waitFor :
       (store'.meta[b].status = "pending" /\ store.meta[b].status # "pending")
         => store'.meta[a].status = "completed"]_vars

\* C7 (S4): while a job A that B waits for is not completed, B is scheduled,
\* is in no priority queue and no claim-job invocation returns B.
C7_DependentWaits ==
  \A b \in Jobs : \A a \in store.config[b].waitFor :
    (store.meta[b].exists /\ store.meta[a].status # "completed") =>
      /\ store.meta[b].status = "scheduled"
      /\ ~InQueue(store, b)
      /\ \A w \in Workers : ClaimChoice(store, w, WorkerMesh(w), now) # b

\* What complete(j, completed) by the owner w leaves for the waiter k.
WaiterReleased(s, k, m) ==
  /\ s.meta[k].status = "pending"
  /\ \E e \in s.pending : e.job = k /\ e.score = s.meta[k].priority
  /\ \E e \in s.queue : e.job = k /\ e.mesh = m /\ e.prio = s.meta[k].priority

\* C8 (P8): after complete(j, completed), every waiter of j whose depends set
\* is now empty and whose meta exists is pending, is in the pending index with
\* its priority as score and is in the priority queue of its mesh and priority.
C8_WaitersReleased ==
  \A j \in Jobs : \A w \in Workers : \A order \in Orders(store.waiters[j]) :
    CompleteAccepted(store, j, w) =>
      LET r == CompleteScript(store, j, w, "completed", order, now)
      IN  \A k \in store.waiters[j] :
            (r.store.depends[k] = {} /\ r.store.meta[k].exists)
              => WaiterReleased(r.store, k, jobMesh[k])

\* C9 (I5): attempt <= maxAttempts for every job, with equality only for a
\* failed job that is in the DLQ.
C9_AttemptWithinBudget ==
  \A j \in Jobs :
    store.config[j].exists =>
      /\ store.meta[j].attempt <= store.config[j].maxAttempts
      /\ store.meta[j].attempt = store.config[j].maxAttempts
           => (store.meta[j].status = "failed" /\ InDlq(store, j))

\* A job that was retried once and whose next failure exhausted the budget:
\* retry-job has removed it from the active hash and left attempt as it was.
C9_Witness ==
  \E j \in Jobs :
    /\ store.config[j].exists
    /\ store.meta[j].attempt >= 1
    /\ store.meta[j].attempt + 1 = store.config[j].maxAttempts
    /\ store.meta[j].status = "active"
    /\ store.meta[j].processedBy # NoWorker
    /\ ~InAnyActive(store, j)
    /\ \A w \in Workers : worker[w].running[j] = 0

\* C10 (P4): a failed job is in the DLQ and its attempt equals maxAttempts.
C10_FailedOnlyWhenExhausted ==
  \A j \in Jobs :
    (store.meta[j].exists /\ store.meta[j].status = "failed") =>
      /\ InDlq(store, j)
      /\ store.meta[j].attempt = store.config[j].maxAttempts

----------------------------------------------------------------------------
\* The retry timeline in milliseconds: jobs with retry.maxAttempts = 3 and
\* the default exponential backoff, handlers that always throw.

\* Time moves to the next due entry of the delayed set.
AdvanceToDue ==
  /\ \E e \in store.delayed : e.score > now
  /\ now' = (CHOOSE e \in {f \in store.delayed : f.score > now} :
               \A f \in store.delayed : f.score > now => e.score <= f.score).score
  /\ UNCHANGED <<store, jobMesh, worker, cancelling, pool, breaker>>

\* Worker._failJob with the delay the script draws.
ThrowWithBackoff(w, j, r) ==
  HandlerThrows(w, j, DefaultRetryDelay(store.meta[j].attempt + 1, r))

NextRetry ==
  \/ \E j \in PairJobs : CreateJob(j, "default", 5, 0, DefaultMaxAttempts, {})
  \/ \E w \in Workers : WorkerClaim(w)
  \/ \E w \in Workers, j \in Jobs, r \in RandomDraws : ThrowWithBackoff(w, j, r)
  \/ ProcessDelayed
  \/ AdvanceToDue

SpecRetry == Init /\ [][NextRetry]_vars

\* C11: for a job with maxAttempts 3 and exponential backoff of base 1000
\* whose handler throws, the first and second failures leave it scheduled in
\* the delayed set at now + 1000 * 2^(attempt-1) within 20 per cent, and the
\* third failure leaves it failed with attempt = 3 and its id in the DLQ of
\* its mesh.
C11_RetryTimeline ==
  \A j \in Jobs : \A w \in Workers : \A r \in RandomDraws :
    (worker[w].running[j] > 0 /\ RetryAccepted(store, j, w)) =>
      LET n == store.meta[j].attempt + 1
          d == DefaultRetryDelay(n, r)
          nominal == DefaultBaseDelayMs * Pow2(n - 1)
          after == RetryScript(store, j, w, d, now).store
      IN  IF n < DefaultMaxAttempts
            THEN /\ after.meta[j].status = "scheduled"
                 /\ after.meta[j].attempt = n
                 /\ [job |-> j, score |-> now + d] \in after.delayed
                 /\ 5 * d >= 4 * nominal /\ 5 * d <= 6 * nominal
            ELSE /\ after.meta[j].status = "failed"
                 /\ after.meta[j].attempt = DefaultMaxAttempts
                 /\ \E i \in DOMAIN after.dlq :
                      after.dlq[i] = [key |-> jobMesh[j], job |-> j]

----------------------------------------------------------------------------
\* StallDetector: the service loop with its default options, time in
\* milliseconds.

DetectorStallTimeoutMs == 300000
DetectorMaxStallCount == 3

\* The periods of stallTimeoutMs + 1 the clock runs through.
MaxStallTicks == 4

\* tonumber(ARGV[2]) of a server id that is a name or a uuid.
ServerIdNumber(serverId) == Nil

\* scripts.detectStalled(redis, stallTimeoutMs, maxStallCount) as
\* _checkServerActiveJobs calls it, with (redis, serverId, stallTimeoutMs,
\* maxStallCount, batchSize): ARGV[2] is the server id, ARGV[3] the stall
\* timeout.
CheckServerActiveJobs(s, serverId, order, t) ==
  LET stallTimeout == IF ServerIdNumber(serverId) = Nil
                        THEN 300000 ELSE ServerIdNumber(serverId)
      maxStallCount == DetectorStallTimeoutMs
  IN  DetectStalledScript(s, order, stallTimeout, maxStallCount, t)

\* One iteration of the loop of _detectStalled over the keys server:*.
StallDetectorCall(serverId) ==
  /\ serverId \in store.servers
  /\ \E order \in Orders({e \in store.active : Stalled(e, DetectorStallTimeoutMs, now)}) :
       /\ Grouped(order)
       /\ store' = CheckServerActiveJobs(store, serverId, order, now).store
  /\ UNCHANGED <<now, jobMesh, worker, cancelling, pool, breaker>>

\* The 30 s TTL of server:{serverId} runs out once the heartbeat has stopped.
ExpireServer(w) ==
  /\ ~worker[w].alive
  /\ w \in store.servers
  /\ store' = [store EXCEPT !.servers = @ \ {w}]
  /\ UNCHANGED <<now, jobMesh, worker, cancelling, pool, breaker>>

StallTick ==
  /\ now < MaxStallTicks * (DetectorStallTimeoutMs + 1)
  /\ now' = now + DetectorStallTimeoutMs + 1
  /\ UNCHANGED <<store, jobMesh, worker, cancelling, pool, breaker>>

NextStall ==
  \/ \E j \in PairJobs : CreateJob(j, "default", 5, 0, DefaultMaxAttempts, {})
  \/ \E w \in Workers : WorkerClaim(w)
  \/ \E w \in Workers : StallDetectorCall(w)
  \/ \E w \in Workers : Crash(w)
  \/ \E w \in Workers : Shutdown(w)
  \/ \E w \in Workers : ExpireServer(w)
  \/ StallTick

SpecStall == Init /\ [][NextStall]_vars

\* C12 (I6): under the stall detector's loop with stallTimeoutMs 300000 and
\* maxStallCount 3, stalledCount never exceeds 3, and the detection that
\* raises a job's stalledCount to 3, the third, leaves it failed and in the
\* DLQ.
C12_StallCountBounded ==
  /\ \A j \in Jobs : store.meta[j].stalledCount <= DetectorMaxStallCount
  /\ \A w \in store.servers :
       \A e \in {f \in store.active : Stalled(f, DetectorStallTimeoutMs, now)} :
         store.meta[e.job].stalledCount + 1 = DetectorMaxStallCount =>
           LET after == CheckServerActiveJobs(store, w, <<e>>, now).store
           IN  /\ after.meta[e.job].status = "failed"
               /\ InDlq(after, e.job)

----------------------------------------------------------------------------
\* Stall recovery of immediate and delayed jobs of both meshes, time in
\* milliseconds.

\* scripts.detectStalled(redis) with its default parameters.
DetectStalledDefaults ==
  /\ \E order \in Orders({e \in store.active : Stalled(e, DetectorStallTimeoutMs, now)}) :
       /\ Grouped(order)
       /\ store' = DetectStalledScript(store, order, DetectorStallTimeoutMs,
                                       DetectorMaxStallCount, now).store
  /\ UNCHANGED <<now, jobMesh, worker, cancelling, pool, breaker>>

NextRecover ==
  \/ \E j \in PairJobs, m \in Meshes, d \in {0, DetectorStallTimeoutMs + 1} :
       CreateJob(j, m, 5, d, DefaultMaxAttempts, {})
  \/ \E w \in Workers : WorkerClaim(w)
  \/ ProcessDelayed
  \/ DetectStalledDefaults
  \/ StallTick

SpecRecover == Init /\ [][NextRecover]_vars

\* C13 (P7): when detect-stalled recovers a stalled job with resulting
\* stalledCount < maxStallCount, the job is pending with processedBy = "", in
\* no active hash, in the priority queue of its mesh with score now and in the
\* pending index of its mesh.
C13_RecoveredToItsQueue ==
  \A e \in {f \in store.active : Stalled(f, DetectorStallTimeoutMs, now)} :
    LET j == e.job
        after == DetectStalledScript(store, <<e>>, DetectorStallTimeoutMs,
                                     DetectorMaxStallCount, now).store
    IN  (/\ store.meta[j].exists
         /\ Cardinality({f \in store.active : f.job = j}) = 1
         /\ store.meta[j].stalledCount + 1 < DetectorMaxStallCount) =>
          /\ after.meta[j].status = "pending"
          /\ after.meta[j].processedBy = NoWorker
          /\ after.meta[j].stalledCount = store.meta[j].stalledCount + 1
          /\ ~InAnyActive(after, j)
          /\ [mesh |-> jobMesh[j], prio |-> store.meta[j].priority,
              job |-> j, score |-> now] \in after.queue
          /\ \E q \in after.pending : q.job = j /\ q.mesh = jobMesh[j]

----------------------------------------------------------------------------
\* The stall detector's interval timer keeps firing and the clock keeps
\* running.
SpecStallLive ==
  /\ Init
  /\ [][NextStall]_vars
  /\ WF_vars(StallTick)
  /\ \A w \in Workers : WF_vars(StallDetectorCall(w))

\* The job is active for a worker whose process has ended, and every active
\* hash entry it has is older than the stall timeout.
Abandoned(j) ==
  /\ store.meta[j].status = "active"
  /\ store.meta[j].processedBy \in Workers
  /\ ~worker[store.meta[j].processedBy].alive
  /\ \A e \in store.active : e.job = j => Stalled(e, DetectorStallTimeoutMs, now)

\* C14: a job that is active on a worker that died or stopped is eventually
\* recovered by the stall detector (as long as the detector has a server key
\* to iterate over): it does not remain active forever.
C14_AbandonedRecovered ==
  \A j \in Jobs :
    Abandoned(j) ~> (store.meta[j].status # "active" \/ store.servers = {})

----------------------------------------------------------------------------
\* A job as create-job leaves it when scheduledFor > now: scheduled, never
\* claimed, in the delayed set and in no priority queue.
FreshDelayed(s, j) ==
  /\ s.meta[j].exists
  /\ s.meta[j].attempt = 0
  /\ s.meta[j].stalledCount = 0
  /\ InDelayed(s, j)
  /\ ~InQueue(s, j)
  /\ ~InAnyActive(s, j)

\* C15 (P2): a job created with scheduledFor = now + d, d > 0, starts in the
\* delayed set only; while it is there no claim-job invocation returns it, and
\* it reaches a priority queue only through a process-delayed run executed
\* when its scheduledFor has passed.
C15_DelayedNotClaimedEarly ==
  [][\A j \in Jobs :
       /\ (~store.meta[j].exists /\ store'.meta[j].exists
             /\ store'.meta[j].status = "scheduled") =>
            /\ FreshDelayed(store', j)
            /\ \A e \in store'.delayed : e.job = j => e.score > now
       /\ FreshDelayed(store, j) =>
            /\ \A w \in Workers : ClaimChoice(store, w, WorkerMesh(w), now) # j
            /\ InQueue(store', j) =>
                 /\ \E e \in store.delayed : e.job = j /\ e.score <= now
                 /\ store' = ProcessDelayedScript(store, BatchSize, now)
                 /\ now' = now]_vars

\* A job created with a delay in mesh m1 has been promoted by process-delayed
\* after its delay elapsed, and a claim-job invocation now returns it.
C15_Witness ==
  \E j \in Jobs :
    /\ jobMesh[j] = "m1"
    /\ store.meta[j].attempt = 0
    /\ store.meta[j].stalledCount = 0
    /\ store.meta[j].status = "pending"
    /\ \E e \in store.queue : e.job = j /\ e.mesh = "default" /\ e.score = now /\ now > 0
    /\ ~InDelayed(store, j)
    /\ ClaimChoice(store, "w1", WorkerMesh("w1"), now) = j

----------------------------------------------------------------------------
\* Creation through Client.createJob and JobStorage.createJob, with
\* schedule.delay / schedule.runAt, an idempotency key and a fingerprint.
\* An option that is absent is 0 (schedule) or Nil (key, fingerprint).

RunAtChoices == {0, 1}

\* JobStorage.createJob: meta.status.
ScheduleStatus(delay) == IF delay # 0 THEN "scheduled" ELSE "pending"

\* JobStorage.createJob: meta.scheduledFor.
ScheduledFor(delay, runAt, t) ==
  IF delay # 0 THEN t + delay
  ELSE IF runAt # 0 THEN runAt
  ELSE t

\* createJob.lua steps 9 and 10: SETEX of the idempotency key and of the
\* fingerprint.
RecordDedup(s, j, key, fp) ==
  LET s1 == IF key # Nil THEN [s EXCEPT !.idempotency[key] = j] ELSE s
  IN  IF fp # Nil THEN [s1 EXCEPT !.fingerprint[fp] = j] ELSE s1

\* createJob.lua, whole: the two lookups, then the writes.  The result is the
\* store and the jobId the script returns.
CreateJobScript(s, j, m, p, st, scheduledFor, cfg, key, fp, t) ==
  IF key # Nil /\ s.idempotency[key] # Nil
    THEN [store |-> s, jobId |-> s.idempotency[key], created |-> FALSE]
  ELSE IF fp # Nil /\ s.fingerprint[fp] # Nil
    THEN [store |-> s, jobId |-> s.fingerprint[fp], created |-> FALSE]
  ELSE [store |-> RecordDedup(CreateWrites(s, j, m, p, st, scheduledFor, cfg, t), j, key, fp),
        jobId |-> j, created |-> TRUE]

\* JobStorage.createJob for a job descriptor with the given schedule,
\* idempotency key and fingerprint.
StorageCreateJob(s, j, m, delay, runAt, key, fp, t) ==
  CreateJobScript(s, j, m, 5, ScheduleStatus(delay), ScheduledFor(delay, runAt, t),
                  PlainConfig(DefaultMaxAttempts, {}), key, fp, t)

\* The id uuidv4() returns next.
FreshId(s, j) ==
  /\ ~s.meta[j].exists
  /\ \A k \in Jobs : JobOrder(k) < JobOrder(j) => s.meta[k].exists

ClientCreateJob(j, m, delay, runAt, key, fp) ==
  /\ FreshId(store, j)
  /\ LET r == StorageCreateJob(store, j, m, delay, runAt, key, fp, now)
     IN  /\ store' = r.store
         /\ jobMesh' = IF r.created THEN [jobMesh EXCEPT ![j] = m] ELSE jobMesh
  /\ UNCHANGED <<now, worker, cancelling, pool, breaker>>

NextCreate ==
  \/ \E j \in PairJobs, delay \in 0..MaxDelay, runAt \in RunAtChoices,
        key \in IdempotencyKeys \cup {Nil}, fp \in Fingerprints \cup {Nil} :
       ClientCreateJob(j, "default", delay, runAt, key, fp)
  \/ \E w \in Workers : WorkerClaim(w)
  \/ \E w \in Workers, j \in Jobs : HandlerSucceeds(w, j)
  \/ ProcessDelayed
  \/ Tick

SpecCreate == Init /\ [][NextCreate]_vars

\* C16: a create leaves the new job either scheduled and only in the delayed
\* set, with score scheduledFor > now, or pending in its priority queue and
\* pending index, with score scheduledFor <= now.
C16_CreatePlacement ==
  [][\A j \in Jobs :
       (~store.meta[j].exists /\ store'.meta[j].exists) =>
         \/ /\ store'.meta[j].status = "scheduled"
            /\ \E e \in store'.delayed : e.job = j /\ e.score > now
            /\ ~InQueue(store', j)
            /\ ~InPendingIndex(store', j)
         \/ /\ store'.meta[j].status = "pending"
            /\ \E e \in store'.queue : e.job = j /\ e.score <= now
            /\ InPendingIndex(store', j)
            /\ ~InDelayed(store', j)]_vars

\* C17 (P5, I7): of two creates with the same idempotency key, whatever their
\* payloads, the second returns the jobId the first returned and changes
\* nothing in the store.
C17_IdempotentCreate ==
  \A key \in IdempotencyKeys : \A fp1, fp2 \in Fingerprints \cup {Nil} :
    \A j1, j2 \in Jobs :
      FreshId(store, j1) =>
        LET r1 == StorageCreateJob(store, j1, "default", 0, 0, key, fp1, now)
        IN  FreshId(r1.store, j2) =>
              LET r2 == StorageCreateJob(r1.store, j2, "default", 0, 0, key, fp2, now)
              IN  /\ r2.jobId = r1.jobId
                  /\ r2.store = r1.store

----------------------------------------------------------------------------
\* C18: complete-job called with a serverId that is not the job's processedBy,
\* or for a job whose status is not active, returns a failure and leaves the
\* store as it was.
C18_CompleteRejectedMutatesNothing ==
  \A j \in Jobs : \A w \in Workers : \A fs \in FinalStatuses :
    \A order \in Orders(store.waiters[j]) :
      (store.meta[j].processedBy # w \/ store.meta[j].status # "active") =>
        LET r == CompleteScript(store, j, w, fs, order, now)
        IN  r.outcome = "rejected" /\ r.store = store

\* A worker's handler for a job is still running while the job is active for
\* another server, and a second handler runs for a job that is no longer
\* active: both completions are refused.
C18_Witness ==
  /\ \E j \in Jobs : \E w \in Workers :
       /\ worker[w].running[j] > 0
       /\ store.meta[j].status = "active"
       /\ store.meta[j].processedBy \in Workers \ {w}
       /\ CompleteScript(store, j, w, "completed", <<>>, now).outcome = "rejected"
  /\ \E j \in Jobs : \E w \in Workers :
       /\ worker[w].running[j] > 0
       /\ store.meta[j].processedBy = w
       /\ store.meta[j].status # "active"
       /\ CompleteScript(store, j, w, "completed", <<>>, now).outcome = "rejected"

----------------------------------------------------------------------------
\* Routing: jobs created with config.target.

\* config.target.capabilities as the producer lists them.
TargetCapabilities ==
  {<<>>, <<"gpu:cuda">>, <<"gpu:cuda", "video:ffmpeg">>, <<"video:ffmpeg", "gpu:cuda">>}

TargetConfig(caps, mode, server) ==
  [exists |-> TRUE, maxAttempts |-> DefaultMaxAttempts, waitFor |-> {},
   caps |-> caps, mode |-> mode, server |-> server, rateKey |-> Nil, rateMax |-> 0]

CreateTargeted(j, caps, mode, server) ==
  /\ FreshId(store, j)
  /\ store' = CreateJobScript(store, j, "default", 5, ScheduleStatus(0),
                              ScheduledFor(0, 0, now),
                              TargetConfig(caps, mode, server), Nil, Nil, now).store
  /\ jobMesh' = [jobMesh EXCEPT ![j] = "default"]
  /\ UNCHANGED <<now, worker, cancelling, pool, breaker>>

NextRoute ==
  \/ \E j \in PairJobs, caps \in TargetCapabilities, mode \in Modes,
        server \in {Nil, "w2"} :
       CreateTargeted(j, caps, mode, server)
  \/ \E w \in Workers : WorkerClaim(w)
  \/ \E w \in Workers, j \in Jobs : HandlerSucceeds(w, j)
  \/ Tick

SpecRoute == Init /\ [][NextRoute]_vars

\* C19 (P9): claim-job returns a job to a worker only if the worker qualifies
\* for the job's target: target.server when set, else the required
\* capabilities under target.mode (all: subset of the worker's, any:
\* non-empty intersection).
C19_ClaimOnlyIfQualified ==
  \A w \in Workers :
    LET j == ClaimChoice(store, w, WorkerMesh(w), now)
        cfg == store.config[j]
        required == {cfg.caps[i] : i \in DOMAIN cfg.caps}
    IN  j # Null =>
          IF cfg.server # Nil THEN w = cfg.server
          ELSE \/ required = {}
               \/ cfg.mode = "all" /\ required \subseteq WorkerCaps(w)
               \/ cfg.mode = "any" /\ required \cap WorkerCaps(w) # {}

----------------------------------------------------------------------------
\* C20: claim-job returns null only if none of the due entries of the mesh's
\* priority queues is eligible for the worker; an entry that is cancelled or
\* fails the capability check is skipped, and an eligible job behind it is
\* returned by the same invocation.
C20_NullOnlyIfNoneEligible ==
  \A w \in Workers :
    LET due == {e \in store.queue : e.mesh = WorkerMesh(w) /\ e.score <= now}
        j == ClaimChoice(store, w, WorkerMesh(w), now)
    IN  /\ j = Null => \A e \in due : ~Eligible(store, e.job, w)
        /\ j # Null => \E e \in due : e.job = j /\ Eligible(store, j, w)

----------------------------------------------------------------------------
\* Claim order: three jobs of one type in mesh default, of priority 5 or 9,
\* with or without a required capability.

OrderPriorities == {5, 9}

CreateOrdered(j, p, caps) ==
  /\ FreshId(store, j)
  /\ store' = CreateJobScript(store, j, "default", p, ScheduleStatus(0),
                              ScheduledFor(0, 0, now),
                              TargetConfig(caps, "all", Nil), Nil, Nil, now).store
  /\ jobMesh' = [jobMesh EXCEPT ![j] = "default"]
  /\ UNCHANGED <<now, worker, cancelling, pool, breaker>>

NextOrder ==
  \/ \E j \in Jobs, p \in OrderPriorities, caps \in {<<>>, <<"video:ffmpeg">>} :
       CreateOrdered(j, p, caps)
  \/ \E w \in Workers : WorkerClaim(w)
  \/ Tick

SpecOrder == Init /\ [][NextOrder]_vars

\* C21: among the due entries of the worker's mesh whose job passes the
\* script's checks for this worker, claim-job returns one of the highest
\* priority present and, within that priority, one of earliest score.
C21_HighestPriorityEarliestScore ==
  \A w \in Workers :
    LET el == {e \in store.queue :
                 e.mesh = WorkerMesh(w) /\ e.score <= now /\ Eligible(store, e.job, w)}
        j == ClaimChoice(store, w, WorkerMesh(w), now)
    IN  j # Null =>
          \E e \in el :
            /\ e.job = j
            /\ \A f \in el : f.prio < e.prio \/ (f.prio = e.prio /\ e.score <= f.score)

----------------------------------------------------------------------------
\* Rate limits: jobs with config.rateLimit, and callers of RateLimiter.

RateMaxChoices == {1, 2}
MaxOverflow == 2

RateLimitedConfig(key, max) ==
  [exists |-> TRUE, maxAttempts |-> DefaultMaxAttempts, waitFor |-> {},
   caps |-> <<>>, mode |-> Nil, server |-> Nil, rateKey |-> key, rateMax |-> max]

CreateRateLimited(j, key, max) ==
  /\ FreshId(store, j)
  /\ store' = CreateJobScript(store, j, "default", 5, ScheduleStatus(0),
                              ScheduledFor(0, 0, now),
                              RateLimitedConfig(key, max), Nil, Nil, now).store
  /\ jobMesh' = [jobMesh EXCEPT ![j] = "default"]
  /\ UNCHANGED <<now, worker, cancelling, pool, breaker>>

\* rateLimitCheck.lua: under the limit INCR; at the limit RPUSH the jobId, if
\* one is given, onto ratelimitqueue:{key}.
RateLimitCheckScript(s, key, max, jobId) ==
  IF s.ratelimit[key] < max
    THEN [s EXCEPT !.ratelimit[key] = @ + 1]
    ELSE IF jobId # Nil
           THEN [s EXCEPT !.overflow[key] = Append(@, jobId)]
           ELSE s

\* RateLimiter.checkLimit
CheckLimit(key, max) ==
  /\ store' = RateLimitCheckScript(store, key, max, Nil)
  /\ UNCHANGED <<now, jobMesh, worker, cancelling, pool, breaker>>

\* RateLimiter.checkAndQueue
CheckAndQueue(key, max, j) ==
  /\ Len(store.overflow[key]) < MaxOverflow
  /\ store' = RateLimitCheckScript(store, key, max, j)
  /\ UNCHANGED <<now, jobMesh, worker, cancelling, pool, breaker>>

\* A window ends: the EXPIRE of ratelimit:{key}, set at the first INCR, or
\* that of ratelimitqueue:{key}, renewed at every RPUSH, removes the key.
RateWindowEnds(key) ==
  /\ \/ /\ store.ratelimit[key] > 0
        /\ store' = [store EXCEPT !.ratelimit[key] = 0]
     \/ /\ store.overflow[key] # <<>>
        /\ store' = [store EXCEPT !.overflow[key] = <<>>]
  /\ UNCHANGED <<now, jobMesh, worker, cancelling, pool, breaker>>

NextRate ==
  \/ \E j \in PairJobs, key \in RateLimitKeys \cup {Nil}, max \in RateMaxChoices :
       CreateRateLimited(j, key, max)
  \/ \E key \in RateLimitKeys, max \in RateMaxChoices : CheckLimit(key, max)
  \/ \E key \in RateLimitKeys, max \in RateMaxChoices, j \in PairJobs :
       CheckAndQueue(key, max, j)
  \/ \E key \in RateLimitKeys : RateWindowEnds(key)
  \/ \E w \in Workers : WorkerClaim(w)
  \/ \E w \in Workers, j \in Jobs : HandlerSucceeds(w, j)
  \/ Tick

SpecRate == Init /\ [][NextRate]_vars

\* C22: claim-job never returns a job whose rate-limit counter has reached
\* rateLimit.max; such a job keeps its meta, its queue entry and its
\* pending-index entry through the invocation, and the invocation leaves the
\* overflow lists as they were.
C22_SaturatedNeverClaimed ==
  \A w \in Workers :
    LET j == ClaimChoice(store, w, WorkerMesh(w), now)
        after == ClaimScript(store, w, WorkerMesh(w), now)
        saturated == {k \in Jobs :
                        /\ store.config[k].exists
                        /\ store.config[k].rateKey # Nil
                        /\ store.ratelimit[store.config[k].rateKey]
                             >= store.config[k].rateMax}
    IN  /\ j \notin saturated
        /\ after.overflow = store.overflow
        /\ after.ratelimit = store.ratelimit
        /\ \A k \in saturated :
             /\ after.meta[k] = store.meta[k]
             /\ {e \in after.queue : e.job = k} = {e \in store.queue : e.job = k}
             /\ {e \in after.pending : e.job = k} = {e \in store.pending : e.job = k}

\* A pending job with a rate limit is the head of its queue and its counter
\* has reached the limit through check calls, one of which queued a job id on
\* the overflow list; the claim passes it over and returns the job behind no
\* one: null for one worker.
C22_Witness ==
  \E j \in Jobs :
    LET cfg == store.config[j]
    IN  /\ cfg.exists /\ cfg.rateKey # Nil
        /\ store.ratelimit[cfg.rateKey] = cfg.rateMax
        /\ store.overflow[cfg.rateKey] # <<>>
        /\ store.meta[j].status = "pending"
        /\ \E e \in QueueHead(store, "default", 5, now) : e.job = j
        /\ ClaimChoice(store, "w1", "default", now) = Null

----------------------------------------------------------------------------
\* C23: cancelJob writes status cancelled only over a status that is pending
\* or scheduled at the moment of the write, whatever claim-job,
\* process-delayed, complete-job and retry-job did since cancelJob read the
\* meta.
C23_CancelOnlyPendingOrScheduled ==
  [][\A j \in Jobs :
       (j \in cancelling /\ j \notin cancelling'
          /\ store'.meta[j].status = "cancelled") =>
         store.meta[j].status \in {"pending", "scheduled"}]_vars

----------------------------------------------------------------------------
\* Handler failures with an error code and a retryable flag.

\* 0: the thrown error carries no code.
ErrorCodes == {0, 1001, 1002, 3003}

\* The catch block of Worker._processJob builds the argument of _failJob
\* from error.message and error.stack.
FailArgument(code, retryable) == [message |-> "error"]

\* Worker._failJob -> JobStorage.failJob -> scripts.retryJob: the error is
\* appended to the errors list, nothing else reads it.
FailJob(s, j, w, error, delay, t) == RetryScript(s, j, w, delay, t)

HandlerThrowsError(w, j, code, retryable, r) ==
  /\ worker[w].alive
  /\ worker[w].running[j] > 0
  /\ store' = FailJob(store, j, w, FailArgument(code, retryable),
                      DefaultRetryDelay(store.meta[j].attempt + 1, r), now).store
  /\ worker' = [worker EXCEPT ![w] = TaskEnds(@, j, "running")]
  /\ UNCHANGED <<now, jobMesh, cancelling, pool, breaker>>

NextFail ==
  \/ \E j \in PairJobs : CreateJob(j, "default", 5, 0, DefaultMaxAttempts, {})
  \/ \E w \in Workers : WorkerClaim(w)
  \/ \E w \in Workers, j \in Jobs, code \in ErrorCodes, retryable \in BOOLEAN,
        r \in RandomDraws :
       HandlerThrowsError(w, j, code, retryable, r)
  \/ ProcessDelayed
  \/ AdvanceToDue

SpecFail == Init /\ [][NextFail]_vars

\* C24: when the handler of a running job fails with an error whose code is
\* 1001, 1002 or 3003, or that carries retryable = false, the job is not
\* re-scheduled: it does not become scheduled, does not enter the delayed set,
\* and is left failed.
C24_NonRetryableNotRescheduled ==
  \A j \in Jobs : \A w \in Workers : \A code \in ErrorCodes :
    \A retryable \in BOOLEAN : \A r \in RandomDraws :
      (/\ worker[w].running[j] > 0
       /\ store.meta[j].status = "active"
       /\ store.meta[j].processedBy = w
       /\ (code \in {1001, 1002, 3003} \/ ~retryable)) =>
        LET after == FailJob(store, j, w, FailArgument(code, retryable),
                             DefaultRetryDelay(store.meta[j].attempt + 1, r), now).store
        IN  /\ after.meta[j].status = "failed"
            /\ after.delayed = store.delayed

----------------------------------------------------------------------------
\* The claim loop with its calls in flight: the interval callback tests
\* running and activeJobs.size, then awaits JobStorage.claimJob; the script
\* runs in the store; the reply resumes _claimAndProcess.

MaxRequests == 3
StopTimeout == 0

\* The interval callback up to the await.
ClaimTick(w) ==
  /\ worker[w].alive
  /\ worker[w].phase = "running"
  /\ Cardinality(worker[w].activeJobs) < Concurrency
  /\ worker[w].requests < MaxRequests
  /\ worker' = [worker EXCEPT ![w].requests = @ + 1]
  /\ UNCHANGED <<store, now, jobMesh, cancelling, pool, breaker>>

\* The store runs claimJob.lua for a call that was sent.
ClaimExecute(w) ==
  /\ worker[w].alive
  /\ worker[w].requests > 0
  /\ LET j == ClaimChoice(store, w, worker[w].mesh, now)
     IN  /\ store' = ClaimScript(store, w, worker[w].mesh, now)
         /\ worker' = [worker EXCEPT
              ![w].requests = @ - 1,
              ![w].claiming = IF j = Null THEN @ ELSE [@ EXCEPT ![j] = @ + 1]]
  /\ UNCHANGED <<now, jobMesh, cancelling, pool, breaker>>

\* _claimAndProcess after the await: activeJobs.add, _processJob starts.
ClaimReply(w, j) ==
  /\ worker[w].alive
  /\ worker[w].claiming[j] > 0
  /\ worker' = [worker EXCEPT ![w].claiming[j] = @ - 1,
                              ![w].activeJobs = @ \cup {j},
                              ![w].running[j] = @ + 1]
  /\ UNCHANGED <<store, now, jobMesh, cancelling, pool, breaker>>

\* The jobs the worker has claimed and not yet completed or retried.
InFlight(wk) ==
  LET RECURSIVE Sum(_)
      Sum(js) == IF js = {} THEN 0
                 ELSE LET j == CHOOSE x \in js : TRUE
                      IN  wk.claiming[j] + wk.running[j] + wk.failing[j] + Sum(js \ {j})
  IN  Sum(Jobs)

NextLoop ==
  \/ \E j \in Jobs : CreateJob(j, "default", 5, 0, DefaultMaxAttempts, {})
  \/ \E w \in Workers : ClaimTick(w)
  \/ \E w \in Workers : ClaimExecute(w)
  \/ \E w \in Workers, j \in Jobs : ClaimReply(w, j)
  \/ \E w \in Workers, j \in Jobs : HandlerSucceeds(w, j)

SpecLoop == Init /\ [][NextLoop]_vars

\* C25: a worker of concurrency N never has more than N jobs in flight, also
\* while claim calls of successive ticks are outstanding together.
C25_InFlightWithinConcurrency ==
  \A w \in Workers : InFlight(worker[w]) <= Concurrency

----------------------------------------------------------------------------
\* Worker.stop(timeoutMs).

\* stop() up to its wait loop: running = false, clearInterval.
StopBegins(w) ==
  /\ worker[w].alive
  /\ worker[w].phase = "running"
  /\ worker' = [worker EXCEPT ![w].phase = "stopping", ![w].stopStart = now]
  /\ UNCHANGED <<store, now, jobMesh, cancelling, pool, breaker>>

\* The wait loop ends: activeJobs is empty, or the timeout has passed.
StopReturns(w) ==
  /\ worker[w].alive
  /\ worker[w].phase = "stopping"
  /\ worker[w].activeJobs = {} \/ now - worker[w].stopStart > StopTimeout
  /\ worker' = [worker EXCEPT ![w].phase = "stopped"]
  /\ UNCHANGED <<store, now, jobMesh, cancelling, pool, breaker>>

NextStop ==
  \/ \E j \in PairJobs : CreateJob(j, "default", 5, 0, DefaultMaxAttempts, {})
  \/ \E w \in Workers : ClaimTick(w)
  \/ \E w \in Workers : ClaimExecute(w)
  \/ \E w \in Workers, j \in Jobs : ClaimReply(w, j)
  \/ \E w \in Workers, j \in Jobs : HandlerSucceeds(w, j)
  \/ \E w \in Workers : StopBegins(w)
  \/ \E w \in Workers : StopReturns(w)
  \/ Tick

SpecStop == Init /\ [][NextStop]_vars

\* C26: once stop() has begun no job becomes active for the worker, and
\* stop() returns only when the worker has no job in flight or the timeout
\* has elapsed.
C26_GracefulStop ==
  [][\A w \in Workers :
       /\ worker[w].phase # "running" =>
            \A j \in Jobs : InActiveOf(store', w, j) => InActiveOf(store, w, j)
       /\ (worker[w].phase = "stopping" /\ worker'[w].phase = "stopped") =>
            \/ InFlight(worker[w]) = 0
            \/ now - worker[w].stopStart > StopTimeout]_vars

----------------------------------------------------------------------------
\* batchJobs.lua, called through scripts.finalizeBatch with the members the
\* accumulation list holds.

BatchIds == {"C"}

\* Step 4 for one member: ZREM from the queue of the batch's mesh, type and
\* priority, HMSET status = batched.
BatchMember(s, j, m, p) ==
  IF ~s.meta[j].exists THEN s
  ELSE [s EXCEPT !.queue = ZRemQueue(@, m, p, j),
                 !.meta[j].status = "batched"]

RECURSIVE BatchMembers(_, _, _, _)
BatchMembers(s, members, m, p) ==
  IF members = <<>> THEN s
  ELSE BatchMembers(BatchMember(s, Head(members), m, p), Tail(members), m, p)

\* Steps 1-6: no members, failure; else the members leave the queue and the
\* batchId enters the queue and the pending index.
BatchJobsScript(s, members, batchId, m, p, t) ==
  IF members = <<>> THEN s
  ELSE LET s1 == BatchMembers(s, members, m, p)
       IN  [s1 EXCEPT !.queue = ZAddQueue(@, m, p, batchId, t),
                      !.pending = ZAddPending(@, m, batchId, p)]

FinalizeBatch(members, batchId, m, p) ==
  /\ \A i \in DOMAIN members : jobMesh[members[i]] # Nil
  /\ store' = BatchJobsScript(store, members, batchId, m, p, now)
  /\ UNCHANGED <<now, jobMesh, worker, cancelling, pool, breaker>>

NextBatch ==
  \/ \E j \in PairJobs, d \in 0..MaxDelay :
       CreateJob(j, "default", 5, d, DefaultMaxAttempts, {})
  \/ \E js \in SUBSET PairJobs, b \in BatchIds : \E members \in Orders(js) :
       FinalizeBatch(members, b, "default", 5)
  \/ \E w \in Workers : WorkerClaim(w)
  \/ \E w \in Workers, j \in Jobs : HandlerSucceeds(w, j)
  \/ ProcessDelayed
  \/ Tick

SpecBatch == Init /\ [][NextBatch]_vars

\* C27 (I8): a job has an entry in the pending index of a mesh if and only if
\* it has an entry in a priority queue of that mesh.
C27_PendingIndexIffQueued ==
  \A j \in Jobs : \A m \in Meshes :
    (\E e \in store.pending : e.job = j /\ e.mesh = m)
      <=> (\E e \in store.queue : e.job = j /\ e.mesh = m)

\* C28 (I4): for every job a and every b in waiters(a), a is in the depends
\* set of b.
C28_WaitersMirrorDepends ==
  \A a \in Jobs : \A b \in store.waiters[a] : a \in store.depends[b]

\* C29: process-delayed and detect-stalled are idempotent: run a second time
\* on the store the first run left, at the same instant, they change nothing;
\* and a detect-stalled run adds exactly one to the stalledCount of every job
\* it found stalled in one active hash.
C29_MaintenanceIdempotent ==
  /\ LET s1 == ProcessDelayedScript(store, BatchSize, now)
     IN  ProcessDelayedScript(s1, BatchSize, now) = s1
  /\ \A maxStall \in 1..MaxStallChoice :
       \A order \in Orders({e \in store.active : Stalled(e, StallTimeout, now)}) :
         Grouped(order) =>
           LET s1 == DetectStalledScript(store, order, StallTimeout, maxStall, now).store
           IN  /\ \A again \in Orders({e \in s1.active : Stalled(e, StallTimeout, now)}) :
                    Grouped(again) =>
                      DetectStalledScript(s1, again, StallTimeout, maxStall, now).store = s1
               /\ \A i \in DOMAIN order :
                    (/\ store.meta[order[i].job].exists
                     /\ \A k \in DOMAIN order : order[k].job = order[i].job => k = i)
                      => s1.meta[order[i].job].stalledCount
                           = store.meta[order[i].job].stalledCount + 1

\* C30: in every reachable store state every invocation of complete-job,
\* retry-job and detect-stalled returns a result and does not raise, and an
\* invocation that returns a failure leaves the store as it was.
C30_ScriptsReturnAndAreAtomic ==
  /\ \A j \in Jobs : \A w \in Workers : \A fs \in FinalStatuses :
       \A order \in Orders(store.waiters[j]) :
         LET r == CompleteScript(store, j, w, fs, order, now)
         IN  r.outcome # "raised" /\ (r.outcome = "rejected" => r.store = store)
  /\ \A j \in Jobs : \A w \in Workers : \A d \in 1..MaxDelay :
       LET r == RetryScript(store, j, w, d, now)
       IN  r.outcome # "raised" /\ (r.outcome = "rejected" => r.store = store)
  /\ \A maxStall \in 1..MaxStallChoice :
       \A order \in Orders({e \in store.active : Stalled(e, StallTimeout, now)}) :
         Grouped(order) =>
           DetectStalledScript(store, order, StallTimeout, maxStall, now).outcome # "raised"

----------------------------------------------------------------------------
\* ConnectionPool: acquire, release, the wait queue and the health check.
\* Every await is a point where the other callbacks may run.

MaxConstructed == 3
MaxWaits == 2
MaxPoolTime == 2

SeqSet(q) == {q[i] : i \in DOMAIN q}

\* Array.prototype.splice(index, 1)
Splice(q, index) == [i \in 1..(Len(q) - 1) |-> IF i < index THEN q[i] ELSE q[i + 1]]

\* Array.prototype.indexOf / findIndex, 1-based, 0 for -1.
IndexOf(q, x) ==
  IF \E i \in DOMAIN q : q[i] = x
    THEN CHOOSE i \in DOMAIN q : q[i] = x /\ \A k \in 1..(i - 1) : q[k] # x
    ELSE 0

\* The functions of one _waitForConnection call: the promise's resolve and
\* the wrapper stored in the wait queue.
ExecutorResolve(ticket) == <<"resolve", ticket>>
WrappedResolve(ticket) == <<"wrapper", ticket>>

\* waitQueue.findIndex((item) => item.resolve === resolve)
FindWaiter(q, resolve) ==
  IndexOf([i \in DOMAIN q |-> q[i].resolve], resolve)

\* The timeout callback's removal from the wait queue.
RemoveWaiter(q, ticket) ==
  LET index == FindWaiter(q, ExecutorResolve(ticket))
  IN  IF index # 0 THEN Splice(q, index) ELSE q

\* createPool: minConnections connections, then the health-check timer.
CreatePool ==
  /\ ~pool.started
  /\ pool' = [pool EXCEPT
       !.availableConnections = [i \in 1..MinConnections |-> i],
       !.totalConnections = MinConnections,
       !.constructed = MinConnections,
       !.started = TRUE]
  /\ UNCHANGED <<store, now, jobMesh, worker, cancelling, breaker>>

\* acquire up to its first await or its return.
AcquireCall(c) ==
  /\ pool.started
  /\ pool.caller[c].pc = "idle"
  /\ IF Len(pool.availableConnections) > 0
       THEN LET conn == pool.availableConnections[Len(pool.availableConnections)]
            IN  pool' = [pool EXCEPT
                  !.availableConnections = SubSeq(@, 1, Len(@) - 1),
                  !.inUseConnections = @ \cup {conn},
                  !.caller[c] = [IdleCaller EXCEPT !.pc = "holding", !.conn = conn]]
       ELSE IF pool.totalConnections < MaxConnections
         THEN /\ pool.constructed < MaxConstructed
              /\ pool' = [pool EXCEPT
                   !.constructed = @ + 1,
                   !.caller[c] = [IdleCaller EXCEPT !.pc = "connecting",
                                                    !.conn = pool.constructed + 1]]
         ELSE /\ pool.promises < MaxWaits
              /\ pool' = [pool EXCEPT
                   !.promises = @ + 1,
                   !.waitQueue = Append(@, [resolve |-> WrappedResolve(pool.promises + 1),
                                            caller |-> c]),
                   !.caller[c] = [IdleCaller EXCEPT !.pc = "waiting",
                                                    !.ticket = pool.promises + 1,
                                                    !.since = now]]
  /\ UNCHANGED <<store, now, jobMesh, worker, cancelling, breaker>>

\* conn.connect() resolved: the rest of _createConnection and of acquire.
AcquireConnected(c) ==
  /\ pool.caller[c].pc = "connecting"
  /\ LET conn == pool.caller[c].conn
     IN  pool' = [pool EXCEPT
           !.totalConnections = @ + 1,
           !.availableConnections = Append(@, conn),
           !.inUseConnections = @ \cup {conn},
           !.caller[c].pc = "holding"]
  /\ UNCHANGED <<store, now, jobMesh, worker, cancelling, breaker>>

\* release(client) by the caller that holds it.
Release(c) ==
  /\ pool.caller[c].pc = "holding"
  /\ LET conn == pool.caller[c].conn
         found == conn \in pool.inUseConnections \/ conn \in SeqSet(pool.availableConnections)
         idle == [pool EXCEPT !.caller[c] = IdleCaller]
     IN  IF ~found THEN pool' = idle
         ELSE IF Len(pool.waitQueue) > 0
           THEN LET item == Head(pool.waitQueue)
                    w == item.caller
                    pending == /\ idle.caller[w].pc = "waiting"
                               /\ WrappedResolve(idle.caller[w].ticket) = item.resolve
                IN  pool' = [idle EXCEPT
                      !.waitQueue = Tail(@),
                      !.inUseConnections = @ \cup {conn},
                      !.caller[w] = IF pending
                                      THEN [IdleCaller EXCEPT !.pc = "holding", !.conn = conn]
                                      ELSE @]
           ELSE pool' = [idle EXCEPT
                  !.inUseConnections = @ \ {conn},
                  !.availableConnections = Append(@, conn)]
  /\ UNCHANGED <<store, now, jobMesh, worker, cancelling, breaker>>

\* The setTimeout callback of _waitForConnection.
AcquireTimeout(c) ==
  /\ pool.caller[c].pc = "waiting"
  /\ now - pool.caller[c].since >= AcquireTimeoutMs
  /\ pool' = [pool EXCEPT
       !.waitQueue = RemoveWaiter(@, pool.caller[c].ticket),
       !.caller[c] = IdleCaller]
  /\ UNCHANGED <<store, now, jobMesh, worker, cancelling, breaker>>

\* _performHealthCheck: the pings, which find the connections in `dead` stale.
HealthPing(dead) ==
  /\ pool.started
  /\ pool.health.pc = "idle"
  /\ dead \subseteq SeqSet(pool.availableConnections)
  /\ pool' = [pool EXCEPT !.health =
       [pc |-> "evicting", conn |-> 0,
        stale |-> SelectSeq(pool.availableConnections, LAMBDA x : x \in dead)]]
  /\ UNCHANGED <<store, now, jobMesh, worker, cancelling, breaker>>

\* One turn of the removal loop, up to `await conn.disconnect()`.
HealthEvict ==
  /\ pool.health.pc = "evicting"
  /\ IF pool.health.stale = <<>>
       THEN pool' = [pool EXCEPT !.health.pc = "topup"]
       ELSE LET index == IndexOf(pool.availableConnections, Head(pool.health.stale))
            IN  pool' = [pool EXCEPT
                  !.health.stale = Tail(@),
                  !.availableConnections = IF index # 0 THEN Splice(@, index) ELSE @,
                  !.totalConnections = IF index # 0 THEN @ - 1 ELSE @]
  /\ UNCHANGED <<store, now, jobMesh, worker, cancelling, breaker>>

\* The test of the top-up loop and the call of _createConnection.
HealthTopUp ==
  /\ pool.health.pc = "topup"
  /\ IF pool.totalConnections < MinConnections
       THEN /\ pool.constructed < MaxConstructed
            /\ pool' = [pool EXCEPT !.constructed = @ + 1,
                                    !.health = [pc |-> "creating", stale |-> <<>>,
                                                conn |-> pool.constructed + 1]]
       ELSE pool' = [pool EXCEPT !.health = [pc |-> "idle", stale |-> <<>>, conn |-> 0]]
  /\ UNCHANGED <<store, now, jobMesh, worker, cancelling, breaker>>

HealthCreated ==
  /\ pool.health.pc = "creating"
  /\ pool' = [pool EXCEPT
       !.totalConnections = @ + 1,
       !.availableConnections = Append(@, pool.health.conn),
       !.health = [pc |-> "topup", stale |-> <<>>, conn |-> 0]]
  /\ UNCHANGED <<store, now, jobMesh, worker, cancelling, breaker>>

PoolTick ==
  /\ now < MaxPoolTime
  /\ now' = now + 1
  /\ UNCHANGED <<store, jobMesh, worker, cancelling, pool, breaker>>

NextPool ==
  \/ CreatePool
  \/ \E c \in Callers : AcquireCall(c)
  \/ \E c \in Callers : AcquireConnected(c)
  \/ \E c \in Callers : Release(c)
  \/ \E c \in Callers : AcquireTimeout(c)
  \/ \E dead \in SUBSET (1..MaxConstructed) : HealthPing(dead)
  \/ HealthEvict
  \/ HealthTopUp
  \/ HealthCreated
  \/ PoolTick

SpecPool == Init /\ [][NextPool]_vars

\* C31: the pool never holds more than maxConnections connections.
C31_PoolWithinMax ==
  pool.totalConnections <= MaxConnections

\* C39: no connection is both in the available list and in the in-use set,
\* none is twice in the available list, and available + in-use equals the
\* total connection count.
C39_ConnectionHeldOnce ==
  /\ SeqSet(pool.availableConnections) \cap pool.inUseConnections = {}
  /\ \A i, k \in DOMAIN pool.availableConnections :
       pool.availableConnections[i] = pool.availableConnections[k] => i = k
  /\ Len(pool.availableConnections) + Cardinality(pool.inUseConnections)
       = pool.totalConnections

\* C40: every entry of the wait queue belongs to an acquire that is still
\* waiting, and every connection of the in-use set is held by a caller.
C40_NoConnectionLost ==
  /\ \A i \in DOMAIN pool.waitQueue :
       LET w == pool.waitQueue[i].caller
       IN  /\ pool.caller[w].pc = "waiting"
           /\ WrappedResolve(pool.caller[w].ticket) = pool.waitQueue[i].resolve
  /\ \A conn \in pool.inUseConnections :
       \E c \in Callers : pool.caller[c].pc = "holding" /\ pool.caller[c].conn = conn

----------------------------------------------------------------------------
\* Backoff: one job whose retry budget lets the delay reach its cap.

BackoffAttempts == 9

\* ExponentialBackoff.calculateDelay with the default multiplier 2.
CalculateDelay(attempt) ==
  Min(DefaultBaseDelayMs * Pow2(attempt - 1), DefaultMaxDelayMs)

\* RetryStrategy._applyJitter with jitterFactor 0.2 and Math.random() = r/1000.
ApplyJitter(delay, r) == (delay * 1000 + (2 * r - 1000) * (delay \div 5)) \div 1000

\* RetryStrategy.calculateDelayWithJitter
CalculateDelayWithJitter(attempt, r) ==
  Min(ApplyJitter(CalculateDelay(attempt), r), DefaultMaxDelayMs)

NextBackoff ==
  \/ \E j \in ApiJobs : CreateJob(j, "default", 5, 0, BackoffAttempts, {})
  \/ \E w \in Workers : WorkerClaim(w)
  \/ \E w \in Workers, j \in Jobs, r \in RandomDraws : ThrowWithBackoff(w, j, r)
  \/ ProcessDelayed
  \/ AdvanceToDue

SpecBackoff == Init /\ [][NextBackoff]_vars

\* C32: with exponential backoff, base 1000 and max 60000, the delay before
\* jitter of attempts 1, 2, 3, ... is 1000, 2000, 4000, 8000, 16000, 32000,
\* 60000, 60000, ..., in retry-job and in ExponentialBackoff alike, and the
\* delay retry-job schedules the retry with, like the one RetryStrategy
\* reports, is within 20 per cent of it.
C32_BackoffSequence ==
  \A j \in Jobs : \A w \in Workers : \A r \in RandomDraws :
    (/\ worker[w].running[j] > 0
     /\ RetryAccepted(store, j, w)
     /\ store.meta[j].attempt + 1 < store.config[j].maxAttempts) =>
      LET n == store.meta[j].attempt + 1
          expected == <<1000, 2000, 4000, 8000, 16000, 32000, 60000, 60000>>
          before == BackoffDelay("exponential", DefaultBaseDelayMs, DefaultMaxDelayMs, n)
          d == DefaultRetryDelay(n, r)
          after == RetryScript(store, j, w, d, now).store
      IN  /\ before = expected[n]
          /\ CalculateDelay(n) = expected[n]
          /\ 5 * d >= 4 * before /\ 5 * d <= 6 * before
          /\ [job |-> j, score |-> now + d] \in after.delayed
          /\ after.meta[j].status = "scheduled"
          /\ 5 * CalculateDelayWithJitter(n, r) >= 4 * expected[n]
          /\ 5 * CalculateDelayWithJitter(n, r) <= 6 * expected[n]

\* The handler of a job that was retried seven times is running: the next
\* delay is the capped one.
C32_Witness ==
  \E j \in Jobs : \E w \in Workers :
    /\ worker[w].running[j] > 0
    /\ RetryAccepted(store, j, w)
    /\ store.meta[j].attempt = 7
    /\ store.config[j].maxAttempts = BackoffAttempts

----------------------------------------------------------------------------
\* CircuitBreaker.

MaxCalls == 2
MaxBreakerTime == 4

\* execute up to `await fn()`: the test of the OPEN state.
ExecuteEnter(b, t) ==
  IF b.state = "OPEN"
    THEN IF t >= b.nextAttemptTime
           THEN [breaker |-> [b EXCEPT !.state = "HALF_OPEN"], rejected |-> FALSE]
           ELSE [breaker |-> b, rejected |-> TRUE]
    ELSE [breaker |-> b, rejected |-> FALSE]

OnSuccess(b) ==
  LET b1 == [b EXCEPT !.failures = 0]
  IN  IF b1.state = "HALF_OPEN"
        THEN IF b1.successes + 1 >= SuccessThreshold
               THEN [b1 EXCEPT !.state = "CLOSED", !.successes = 0]
               ELSE [b1 EXCEPT !.successes = @ + 1]
        ELSE b1

OnFailure(b, t) ==
  LET b1 == [b EXCEPT !.failures = @ + 1, !.successes = 0]
  IN  IF b1.failures >= FailureThreshold
        THEN [b1 EXCEPT !.state = "OPEN", !.nextAttemptTime = t + BreakerTimeout]
        ELSE b1

Execute ==
  /\ breaker.calls < MaxCalls
  /\ LET r == ExecuteEnter(breaker, now)
     IN  breaker' = IF r.rejected THEN r.breaker
                    ELSE [r.breaker EXCEPT !.calls = @ + 1]
  /\ UNCHANGED <<store, now, jobMesh, worker, cancelling, pool>>

FnReturns ==
  /\ breaker.calls > 0
  /\ breaker' = [OnSuccess(breaker) EXCEPT !.calls = @ - 1]
  /\ UNCHANGED <<store, now, jobMesh, worker, cancelling, pool>>

FnThrows ==
  /\ breaker.calls > 0
  /\ breaker' = [OnFailure(breaker, now) EXCEPT !.calls = @ - 1]
  /\ UNCHANGED <<store, now, jobMesh, worker, cancelling, pool>>

BreakerTick ==
  /\ now < MaxBreakerTime
  /\ now' = now + 1
  /\ UNCHANGED <<store, jobMesh, worker, cancelling, pool, breaker>>

NextBreaker ==
  \/ Execute
  \/ FnReturns
  \/ FnThrows
  \/ BreakerTick

SpecBreaker == Init /\ [][NextBreaker]_vars

\* C33: a CLOSED breaker stays CLOSED while its failures are below the
\* threshold and is OPEN once they exceed it; an OPEN breaker rejects a call
\* until the timeout has elapsed and then goes HALF_OPEN; in HALF_OPEN a
\* successful call moves it to CLOSED and a failed call moves it to OPEN.
C33_BreakerTransitions ==
  /\ (breaker.state = "CLOSED" /\ breaker.calls > 0) =>
       LET after == OnFailure(breaker, now)
       IN  /\ after.failures < FailureThreshold => after.state = "CLOSED"
           /\ after.failures > FailureThreshold => after.state = "OPEN"
  /\ breaker.state = "OPEN" =>
       LET r == ExecuteEnter(breaker, now)
       IN  IF now < breaker.nextAttemptTime
             THEN r.rejected /\ r.breaker.state = "OPEN"
             ELSE ~r.rejected /\ r.breaker.state = "HALF_OPEN"
  /\ (breaker.state = "HALF_OPEN" /\ breaker.calls > 0) =>
       /\ OnSuccess(breaker).state = "CLOSED"
       /\ OnFailure(breaker, now).state = "OPEN"

----------------------------------------------------------------------------
\* C34: once a job is completed, failed or cancelled, no step changes its
\* status or its attempt, adds it to a priority queue, the pending index, the
\* delayed set or an active hash, or appends it to a DLQ; and a DLQ holds each
\* job id at most once.
C34_TerminalAbsorbing ==
  /\ [](\A i, k \in DOMAIN store.dlq : store.dlq[i] = store.dlq[k] => i = k)
  /\ [][\A j \in Jobs :
          (store.meta[j].exists /\ store.meta[j].status \in FinalStatuses) =>
            /\ store'.meta[j].status = store.meta[j].status
            /\ store'.meta[j].attempt = store.meta[j].attempt
            /\ {e \in store'.queue : e.job = j} \subseteq store.queue
            /\ {e \in store'.pending : e.job = j} \subseteq store.pending
            /\ {e \in store'.delayed : e.job = j} \subseteq store.delayed
            /\ {e \in store'.active : e.job = j} \subseteq store.active
            /\ Len(SelectSeq(store'.dlq, LAMBDA e : e.job = j))
                 <= Len(SelectSeq(store.dlq, LAMBDA e : e.job = j))]_vars

----------------------------------------------------------------------------
\* Executions that outlive a stall recovery: handlers keep running while
\* detect-stalled releases their jobs and the claim loops go on.

NextFence ==
  \/ \E j \in PairJobs : CreateJob(j, "default", 5, 0, DefaultMaxAttempts, {})
  \/ \E w \in Workers : WorkerClaim(w)
  \/ \E w \in Workers, j \in Jobs : HandlerSucceeds(w, j)
  \/ \E w \in Workers, j \in Jobs, d \in 1..MaxDelay : HandlerThrows(w, j, d)
  \/ ProcessDelayed
  \/ DetectStalled(DetectorMaxStallCount)
  \/ Tick

SpecFence == Init /\ [][NextFence]_vars

\* C35: when a worker runs more executions of a job than the one that owns it
\* now (the job was released by stall recovery and claimed again), a
\* complete-job or retry-job call of the stale execution is refused and
\* leaves the store as it was.
C35_StaleExecutionFenced ==
  \A j \in Jobs : \A w \in Workers :
    LET owning == IF store.meta[j].processedBy = w THEN 1 ELSE 0
    IN  (/\ worker[w].running[j] > owning
         /\ store.meta[j].status = "active"
         /\ store.meta[j].processedBy \in Workers) =>
          /\ CompleteScript(store, j, w, "completed", <<>>, now).store = store
          /\ \A d \in 1..MaxDelay : RetryScript(store, j, w, d, now).store = store

----------------------------------------------------------------------------
\* The ProcessDelayed service configured with a small options.batchSize.

SmallBatch == 1

ProcessDelayedSmall ==
  /\ store' = ProcessDelayedScript(store, SmallBatch, now)
  /\ UNCHANGED <<now, jobMesh, worker, cancelling, pool, breaker>>

NextDelayed ==
  \/ \E j \in PairJobs, d \in 0..MaxDelay :
       CreateJob(j, "default", 5, d, DefaultMaxAttempts, {})
  \/ \E j \in ApiJobs : CancelRead(j)
  \/ \E j \in ApiJobs : CancelWrite(j)
  \/ \E w \in Workers : WorkerClaim(w)
  \/ \E w \in Workers, j \in Jobs, d \in 1..MaxDelay : HandlerThrows(w, j, d)
  \/ ProcessDelayedSmall
  \/ Tick

\* The service's interval timer keeps firing and the clock keeps running.
SpecDelayedLive ==
  /\ Init
  /\ [][NextDelayed]_vars
  /\ WF_vars(ProcessDelayedSmall)
  /\ WF_vars(Tick)

\* C36: a job that is scheduled and due in the delayed set is eventually in a
\* priority queue (or is no longer scheduled), under repeated process-delayed
\* runs of any batch size.
C36_DueEventuallyPromoted ==
  \A j \in Jobs :
    (/\ store.meta[j].exists
     /\ store.meta[j].status = "scheduled"
     /\ \E e \in store.delayed : e.job = j /\ e.score <= now)
      ~> (InQueue(store, j) \/ store.meta[j].status # "scheduled")

----------------------------------------------------------------------------
\* C37: every entry a job has in a priority queue, in a pending index or in a
\* DLQ is in the one of the mesh the job was created in.
C37_OwnMeshOnly ==
  /\ \A e \in store.queue : e.mesh = jobMesh[e.job]
  /\ \A e \in store.pending : e.mesh = jobMesh[e.job]
  /\ \A i \in DOMAIN store.dlq : store.dlq[i].key = jobMesh[store.dlq[i].job]

----------------------------------------------------------------------------
\* C38: for every rate-limit bucket, the jobs of the bucket that were claimed
\* at one instant, and so within one window, are no more than the
\* rateLimit.max of any of them.
C38_ClaimsWithinLimit ==
  \A j \in Jobs : \A t \in 0..MaxTime :
    (store.config[j].exists /\ store.config[j].rateKey # Nil) =>
      Cardinality({e \in store.active :
                     /\ store.config[e.job].rateKey = store.config[j].rateKey
                     /\ e.at = t}) <= store.config[j].rateMax

====
